---- MODULE Spec2Model ----
(***************************************************************************)
(* A model of the finance-bro analysis agent: the FinancialAgent           *)
(* orchestrator (agent.py), the LLMAnalyst conversation bridge             *)
(* (llm_analyst.py), the TradingConfig defaults (config.py) and the signal *)
(* engine that the orchestrator calls (TradingEngine.evaluate_signal; its  *)
(* body is not among the sources and follows the written design).          *)
(*                                                                         *)
(* Numbers.  Prices held in results are in hundredths of a currency unit   *)
(* (10000 is 100.00); percentages are whole percents; daily changes are in *)
(* tenths of a percent; weights are in hundredths (25 is 0.25); a          *)
(* confidence or a score is an exact fraction <<num, den>> in lowest terms.*)
(* Python's None is the empty tuple and a present value x is <<x>>.        *)
(***************************************************************************)
EXTENDS Integers, Sequences, FiniteSets, TLC

VARIABLES
    config,                \* FinancialAgent.config (a TradingConfig)
    llm_analyst,           \* TRUE iff FinancialAgent.llm_analyst is an LLMAnalyst
    results,               \* FinancialAgent.results
    trade_suggestions,     \* FinancialAgent.trade_suggestions
    conversation_history,  \* LLMAnalyst.conversation_history
    now,                   \* the wall clock read by datetime.now()
    exported,              \* the JSON text last written by export_results
    last                   \* the last call: operation, arguments, what the
                           \* collaborators answered, and what it returned

vars == <<config, llm_analyst, results, trade_suggestions,
          conversation_history, now, exported, last>>

-----------------------------------------------------------------------------
(* Bounds of the model *)

\* results holds at most this many records when every operation is in play
MaxResults == 2
\* results holds at most this many records in the analysis-only session
MaxAnalysed == 3
\* conversation_history holds at most this many messages
MaxHist == 4
\* partial scores are the multiples of 1/ScoreScale in [-1, +1]
ScoreScale == 2
\* a reply of the collaborator holds at most this many tokens
MaxReply == 5

Symbols == {"A", "B", "C"}

-----------------------------------------------------------------------------
(* Values *)

None == <<>>
Some(x) == <<x>>
IsNone(o) == Len(o) = 0
The(o) == o[1]

Abs(x) == IF x < 0 THEN -x ELSE x
Min(a, b) == IF a <= b THEN a ELSE b

RECURSIVE GCD(_, _)
GCD(a, b) == IF b = 0 THEN a ELSE GCD(b, a % b)

\* the fraction n/d (d > 0) in lowest terms
Frac(n, d) == LET g == GCD(Abs(n), d) IN <<n \div g, d \div g>>

\* F applied to the value of e, e evaluated once
Let(e, F(_)) == CHOOSE y \in {F(x) : x \in {e}} : TRUE

\* dict.get(key, default)
Get(d, key, default) == IF key \in DOMAIN d THEN d[key] ELSE default

RECURSIVE SumOver(_, _)
SumOver(S, f) ==
    IF S = {} THEN 0
    ELSE LET x == CHOOSE y \in S : TRUE IN f[x] + SumOver(S \ {x}, f)

-----------------------------------------------------------------------------
(* TradingConfig: the defaults of config.py *)

volume_threshold_percentile == 75
min_daily_change_percent == 5       \* 0.5 %, in tenths of a percent
max_daily_change_percent == 150     \* 15.0 %, in tenths of a percent
lookback_period == 20
stop_loss_percent == 2
take_profit_percent == 5
min_price == 5
max_price == 500
rsi_weight == 25                    \* 0.25, in hundredths

\* The indicators that enter the weighted score.
Indicators == {"rsi", "ma", "macd"}

\* The weights of the indicators config.py does not list, and the signal
\* threshold T = signal_threshold[1] / signal_threshold[2], 0 < T < 1.
other_weight == 25
DefaultThreshold == <<1, 2>>

TradingConfig(sl, tp, w, t) ==
    [ lookback_period |-> lookback_period,
      volume_threshold_percentile |-> volume_threshold_percentile,
      min_daily_change_percent |-> min_daily_change_percent,
      max_daily_change_percent |-> max_daily_change_percent,
      stop_loss_percent |-> sl,
      take_profit_percent |-> tp,
      min_price |-> min_price,
      max_price |-> max_price,
      weights |-> w,
      signal_threshold |-> t ]

DefaultWeights == [i \in Indicators |-> IF i = "rsi" THEN rsi_weight ELSE other_weight]

DefaultConfig ==
    TradingConfig(stop_loss_percent, take_profit_percent, DefaultWeights, DefaultThreshold)

-----------------------------------------------------------------------------
(* The signal engine: TradingEngine.evaluate_signal(symbol, df).           *)
(*                                                                         *)
(* A price series df is seen through what the engine reads of it:          *)
(*   len     the number of bars,                                           *)
(*   close   the latest close (whole currency units),                      *)
(*   change  the latest daily change, in tenths of a percent,              *)
(*   partial for each indicator, None when its computation failed with     *)
(*           InsufficientData, else its partial score p, standing for      *)
(*           p / ScoreScale in [-1, +1],                                   *)
(*   volume_percentile  the percentile rank of the latest volume.          *)
(***************************************************************************)

PartialScores == (-ScoreScale) .. ScoreScale

\* step 1: the preconditions
Preconditions(cfg, df) ==
    /\ df.len >= cfg.lookback_period
    /\ df.close >= cfg.min_price /\ df.close <= cfg.max_price
    /\ df.change >= cfg.min_daily_change_percent
    /\ df.change <= cfg.max_daily_change_percent

\* the indicators whose value is available
Applied(df) == {i \in Indicators : ~IsNone(df.partial[i])}

\* step 4: the weighted sum over the applied indicators, and the sum of the
\* weights applied; the normalized combined score is their quotient over
\* ScoreScale
WeightedSum(cfg, df) ==
    SumOver(Applied(df), [i \in Indicators |->
        IF IsNone(df.partial[i]) THEN 0 ELSE cfg.weights[i] * The(df.partial[i])])

WeightsApplied(cfg, df) == SumOver(Applied(df), cfg.weights)

\* (a variant that normalizes by the weights of all the indicators)
CombinedScoreAllWeights(cfg, df) ==
    <<WeightedSum(cfg, df), ScoreScale * SumOver(Indicators, cfg.weights)>>

\* <<num, den>>, den > 0, not reduced
CombinedScore(cfg, df) ==
    <<WeightedSum(cfg, df), ScoreScale * WeightsApplied(cfg, df)>>

\* (a variant whose thresholds are inclusive)
MapSignalInclusive(s, t) ==
    IF s[1] * t[2] >= t[1] * s[2] THEN "BUY"
    ELSE IF s[1] * t[2] <= -(t[1] * s[2]) THEN "SELL"
    ELSE "HOLD"

\* step 5: score s = <<num, den>> against the threshold t = <<tn, td>>
MapSignal(s, t) ==
    IF s[1] * t[2] > t[1] * s[2] THEN "BUY"
    ELSE IF s[1] * t[2] < -(t[1] * s[2]) THEN "SELL"
    ELSE "HOLD"

\* (a variant that does not halve on low volume)
ConfidenceNotHalved(cfg, df, s) == Frac(Min(Abs(s[1]), s[2]), s[2])

\* step 5: |score| clamped to [0, 1], halved on low volume
Confidence(cfg, df, s) ==
    LET c == Min(Abs(s[1]), s[2]) IN
    IF df.volume_percentile < cfg.volume_threshold_percentile
    THEN Frac(c, 2 * s[2])
    ELSE Frac(c, s[2])

\* step 6: entry, stop and target, in hundredths
Levels(cfg, signal, close) ==
    IF signal = "BUY"
    THEN [entry_price |-> Some(100 * close),
          stop_loss |-> Some(close * (100 - cfg.stop_loss_percent)),
          take_profit |-> Some(close * (100 + cfg.take_profit_percent))]
    ELSE IF signal = "SELL"
    THEN [entry_price |-> Some(100 * close),
          stop_loss |-> Some(close * (100 + cfg.stop_loss_percent)),
          take_profit |-> Some(close * (100 - cfg.take_profit_percent))]
    ELSE [entry_price |-> None, stop_loss |-> None, take_profit |-> None]

\* the SignalResult dict, or None for NoSignal
evaluate_signal(cfg, df) ==
    IF ~Preconditions(cfg, df) \/ Applied(df) = {} THEN None
    ELSE LET s == CombinedScore(cfg, df)
             signal == MapSignal(s, cfg.signal_threshold)
             lv == Levels(cfg, signal, df.close)
         IN Some([ signal |-> signal,
                   confidence |-> Confidence(cfg, df, s),
                   entry_price |-> lv.entry_price,
                   stop_loss |-> lv.stop_loss,
                   take_profit |-> lv.take_profit,
                   score |-> Frac(s[1], s[2]),
                   indicators |-> df.partial,
                   volume_percentile |-> df.volume_percentile ])

-----------------------------------------------------------------------------
(* The market-data collaborator.  What DataFetcher.get_historical_data     *)
(* answers for one call, and whether the engine raises on that frame:      *)
(*   fetch = "raise"  the fetch raises,                                    *)
(*   fetch = "none"   it returns None,                                     *)
(*   fetch = "data"   it returns the frame df (df.len = 0: an empty one).  *)
(***************************************************************************)

Frame(n, c, ch, p, v) ==
    [len |-> n, close |-> c, change |-> ch, partial |-> p, volume_percentile |-> v]

AllAt(p) == [i \in Indicators |-> Some(p)]

NoFrame == Frame(0, 0, 0, [i \in Indicators |-> None], 0)

Outcome(f, df, er) == [fetch |-> f, df |-> df, engine_raises |-> er]

\* the outcomes the orchestrator is driven with
BullFrame == Frame(lookback_period, 100, 10, AllAt(ScoreScale), 90)
BearFrame == Frame(lookback_period, 100, 10, AllAt(-ScoreScale), 50)
FlatFrame == Frame(lookback_period + 1, 100, 10, AllAt(0), 90)
ShortFrame == Frame(lookback_period - 1, 100, 10, AllAt(ScoreScale), 90)

Outcomes ==
    { Outcome("raise", NoFrame, FALSE),
      Outcome("none", NoFrame, FALSE),
      Outcome("data", NoFrame, FALSE),
      Outcome("data", ShortFrame, FALSE),
      Outcome("data", BullFrame, TRUE),
      Outcome("data", BullFrame, FALSE),
      Outcome("data", BearFrame, FALSE),
      Outcome("data", FlatFrame, FALSE) }

\* the outcomes the batch operations are driven with
BatchOutcomes ==
    { Outcome("raise", NoFrame, FALSE),
      Outcome("data", ShortFrame, FALSE),
      Outcome("data", BullFrame, FALSE),
      Outcome("data", BearFrame, FALSE) }

-----------------------------------------------------------------------------
(* FinancialAgent.  A method is an operator from the agent's fields st (a  *)
(* record) and the call's arguments and collaborator answers to the fields *)
(* after the call, the value returned (ret) and whether the call raised    *)
(* (exc).                                                                  *)
(***************************************************************************)

\* (a variant that takes stop_loss and take_profit from each other's key)
AnalysisResultSwapped(symbol, timestamp, sr) ==
    [ symbol |-> symbol,
      timestamp |-> timestamp,
      signal |-> Get(sr, "signal", "HOLD"),
      confidence |-> Get(sr, "confidence", <<0, 1>>),
      entry_price |-> Get(sr, "entry_price", None),
      stop_loss |-> Get(sr, "take_profit", None),
      take_profit |-> Get(sr, "stop_loss", None),
      analysis_data |-> sr ]

AnalysisResult(symbol, timestamp, sr) ==
    [ symbol |-> symbol,
      timestamp |-> timestamp,
      signal |-> Get(sr, "signal", "HOLD"),
      confidence |-> Get(sr, "confidence", <<0, 1>>),
      entry_price |-> Get(sr, "entry_price", None),
      stop_loss |-> Get(sr, "stop_loss", None),
      take_profit |-> Get(sr, "take_profit", None),
      analysis_data |-> sr ]

Returns(st, r) == [st |-> st, ret |-> r, exc |-> FALSE]
Raises(st) == [st |-> st, ret |-> None, exc |-> TRUE]

\* (a variant that puts the new result at the head of results)
analyze_symbol_try_prepending(st, symbol, o) ==
    IF o.fetch = "raise" THEN Raises(st)
    ELSE IF o.fetch = "none" \/ o.df.len = 0 THEN Returns(st, None)
    ELSE IF o.engine_raises THEN Raises(st)
    ELSE LET signal_result == evaluate_signal(st.config, o.df) IN
         IF IsNone(signal_result) THEN Returns(st, None)
         ELSE LET result == AnalysisResult(symbol, st.now, The(signal_result)) IN
              Returns([st EXCEPT !.results = <<result>> \o @, !.now = @ + 1],
                      Some(result))

\* the body of the try block of analyze_symbol
analyze_symbol_try(st, symbol, o) ==
    IF o.fetch = "raise" THEN Raises(st)
    ELSE IF o.fetch = "none" \/ o.df.len = 0 THEN Returns(st, None)
    ELSE IF o.engine_raises THEN Raises(st)
    ELSE LET signal_result == evaluate_signal(st.config, o.df) IN
         IF IsNone(signal_result) THEN Returns(st, None)
         ELSE LET result == AnalysisResult(symbol, st.now, The(signal_result)) IN
              Returns([st EXCEPT !.results = Append(@, result), !.now = @ + 1],
                      Some(result))

\* (a variant without the except clause)
analyze_symbol_unguarded(st, symbol, o) == analyze_symbol_try(st, symbol, o)

\* the try block under its except clause: an exception is logged, None returned
analyze_symbol(st, symbol, o) ==
    Let(analyze_symbol_try(st, symbol, o),
        LAMBDA b : IF b.exc THEN Returns(b.st, None) ELSE b)

\* the loop of analyze_symbols from its i-th symbol on; acc is the local list
RECURSIVE analyze_symbols_from(_, _, _, _, _)
analyze_symbols_from(st, symbols, env, i, acc) ==
    IF i > Len(symbols) THEN Returns(st, acc)
    ELSE Let(analyze_symbol(st, symbols[i], env[i]),
             LAMBDA r :
                IF r.exc THEN Raises(r.st)
                ELSE analyze_symbols_from(r.st, symbols, env, i + 1,
                        IF IsNone(r.ret) THEN acc ELSE Append(acc, The(r.ret))))

\* (a variant whose loop ends at the first symbol that gives no result)
RECURSIVE analyze_symbols_until(_, _, _, _, _)
analyze_symbols_until(st, symbols, env, i, acc) ==
    IF i > Len(symbols) THEN Returns(st, acc)
    ELSE Let(analyze_symbol(st, symbols[i], env[i]),
             LAMBDA r :
                IF r.exc THEN Raises(r.st)
                ELSE IF IsNone(r.ret) THEN Returns(r.st, acc)
                ELSE analyze_symbols_until(r.st, symbols, env, i + 1,
                                           Append(acc, The(r.ret))))

analyze_symbols_stopping(st, symbols, env) ==
    analyze_symbols_until(st, symbols, env, 1, <<>>)

analyze_symbols(st, symbols, env) == analyze_symbols_from(st, symbols, env, 1, <<>>)

get_buy_signals(st) == Returns(st, SelectSeq(st.results, LAMBDA r : r.signal = "BUY"))

\* (a variant that filters on the other signal)
get_sell_signals_buy(st) == Returns(st, SelectSeq(st.results, LAMBDA r : r.signal = "BUY"))

get_sell_signals(st) == Returns(st, SelectSeq(st.results, LAMBDA r : r.signal = "SELL"))

\* datetime.isoformat(): the text of a timestamp
IsoFormat(t) == ToString(t)

\* json.dump: a str, a float and an optional float as JSON values
JsonString(x) == [t |-> "string", v |-> x]
JsonNumber(x) == [t |-> "number", v |-> Some(x)]
JsonNull == [t |-> "null", v |-> None]
JsonOptional(o) == IF IsNone(o) THEN JsonNull ELSE JsonNumber(The(o))

\* (a variant that writes stop_loss and take_profit under each other's key)
ExportObjectSwapped(r) ==
    [ symbol |-> JsonString(r.symbol),
      timestamp |-> JsonString(IsoFormat(r.timestamp)),
      signal |-> JsonString(r.signal),
      confidence |-> JsonNumber(r.confidence),
      entry_price |-> JsonOptional(r.entry_price),
      stop_loss |-> JsonOptional(r.take_profit),
      take_profit |-> JsonOptional(r.stop_loss) ]

\* the object export_results writes for the result r
ExportObject(r) ==
    [ symbol |-> JsonString(r.symbol),
      timestamp |-> JsonString(IsoFormat(r.timestamp)),
      signal |-> JsonString(r.signal),
      confidence |-> JsonNumber(r.confidence),
      entry_price |-> JsonOptional(r.entry_price),
      stop_loss |-> JsonOptional(r.stop_loss),
      take_profit |-> JsonOptional(r.take_profit) ]

\* the JSON array export_results writes
export_results(st) == [i \in 1 .. Len(st.results) |-> ExportObject(st.results[i])]

-----------------------------------------------------------------------------
(* LLMAnalyst.  A reply of the text-generation collaborator is a sequence  *)
(* of tokens: "{" and "}" are the braces, "k" is a key with a scalar       *)
(* value, "w" is a word of prose.  An answer llm of the collaborator is    *)
(* [raises |-> TRUE] (messages.create raises) or the reply text.           *)
(***************************************************************************)

Llm(raises, text) == [raises |-> raises, text |-> text]

\* str.find and str.rfind, counting from 1, 0 when absent
Find(text, c) ==
    IF \E i \in 1 .. Len(text) : text[i] = c
    THEN CHOOSE i \in 1 .. Len(text) :
            text[i] = c /\ \A j \in 1 .. (i - 1) : text[j] # c
    ELSE 0

RFind(text, c) ==
    IF \E i \in 1 .. Len(text) : text[i] = c
    THEN CHOOSE i \in 1 .. Len(text) :
            text[i] = c /\ \A j \in (i + 1) .. Len(text) : text[j] # c
    ELSE 0

\* the nesting depth after the first i tokens of span
RECURSIVE Depth(_, _)
Depth(span, i) ==
    IF i = 0 THEN 0
    ELSE Depth(span, i - 1)
         + (IF span[i] = "{" THEN 1 ELSE IF span[i] = "}" THEN -1 ELSE 0)

\* json.loads accepts span: one object, its braces closing only at the end,
\* with no prose in it
JsonLoads(span) ==
    /\ Len(span) >= 2
    /\ span[1] = "{"
    /\ \A i \in 1 .. Len(span) : span[i] # "w"
    /\ \A i \in 1 .. (Len(span) - 1) : Depth(span, i) > 0
    /\ Depth(span, Len(span)) = 0

\* an extraction whose degraded record keeps the span instead of the reply
ExtractJsonKeepingSpan(text, what, rawkey) ==
    LET json_start == Find(text, "{")
        json_end == RFind(text, "}")
    IN  IF json_start # 0 /\ json_end >= json_start
        THEN IF JsonLoads(SubSeq(text, json_start, json_end))
             THEN [parsed |-> SubSeq(text, json_start, json_end)]
             ELSE [error |-> "Invalid JSON in " \o what, rawkey |-> rawkey,
                   raw |-> SubSeq(text, json_start, json_end)]
        ELSE [error |-> "Could not parse " \o what, rawkey |-> rawkey, raw |-> text]

\* the extraction of the JSON payload from a reply; what names the messages
\* and the key of the raw text
ExtractJson(text, what, rawkey) ==
    LET json_start == Find(text, "{")
        json_end == RFind(text, "}")
    IN  IF json_start # 0 /\ json_end >= json_start
        THEN IF JsonLoads(SubSeq(text, json_start, json_end))
             THEN [parsed |-> SubSeq(text, json_start, json_end)]
             ELSE [error |-> "Invalid JSON in " \o what, rawkey |-> rawkey, raw |-> text]
        ELSE [error |-> "Could not parse " \o what, rawkey |-> rawkey, raw |-> text]

Message(role, content) == [role |-> role, content |-> content]

\* an exchange that sends the collaborator the new prompt alone
ExchangeSendingPrompt(h, prompt, llm, what, rawkey) ==
    LET h1 == Append(h, Message("user", prompt)) IN
    IF llm.raises THEN [h |-> h1, sent |-> <<Message("user", prompt)>>,
                        ret |-> None, exc |-> TRUE]
    ELSE [ h |-> Append(h1, Message("assistant", llm.text)),
           sent |-> <<Message("user", prompt)>>,
           ret |-> Some(ExtractJson(llm.text, what, rawkey)),
           exc |-> FALSE ]

\* one exchange: the prompt is appended, the collaborator is called with the
\* whole history, its reply is appended and parsed
Exchange(h, prompt, llm, what, rawkey) ==
    LET h1 == Append(h, Message("user", prompt)) IN
    IF llm.raises THEN [h |-> h1, sent |-> h1, ret |-> None, exc |-> TRUE]
    ELSE [ h |-> Append(h1, Message("assistant", llm.text)),
           sent |-> h1,
           ret |-> Some(ExtractJson(llm.text, what, rawkey)),
           exc |-> FALSE ]

analyze_signal(h, symbol, llm) ==
    Exchange(h, <<"analyze_signal", symbol>>, llm, "response", "raw_response")

generate_trade_suggestion(h, symbol, llm, t) ==
    Let(Exchange(h, <<"generate_trade_suggestion", symbol>>, llm, "suggestion", "raw"),
        LAMBDA x :
           IF x.exc THEN x
           ELSE [x EXCEPT !.ret = Some([body |-> The(x.ret), timestamp |-> IsoFormat(t)])])

assess_market_conditions(h, llm) ==
    Exchange(h, <<"assess_market_conditions">>, llm, "assessment", "raw")

reset_conversation(h) == <<>>

-----------------------------------------------------------------------------
(* FinancialAgent: the trade suggestions *)

\* _get_current_price: a fetch of one day; None when it fails
get_current_price(o) ==
    IF o.fetch = "data" /\ o.df.len > 0 THEN Some(100 * o.df.close) ELSE None

\* the call from the trade suggestion on: st1 and h are the fields and the
\* history after analyze_signal, which returned analysis
suggestion_from_price(st1, symbol, res, analysis, env) ==
    Let(IF ~IsNone(res.entry_price) /\ The(res.entry_price) # 0
        THEN res.entry_price
        ELSE get_current_price(env.price),
        LAMBDA current_price :
    IF IsNone(current_price) \/ The(current_price) = 0 THEN Returns(st1, None)
    ELSE
    Let(generate_trade_suggestion(st1.conversation_history, symbol, env.llm2, st1.now),
        LAMBDA x2 :
    IF x2.exc THEN Returns([st1 EXCEPT !.conversation_history = x2.h], None)
    ELSE
    Let([ body |-> The(x2.ret).body,
          timestamp |-> The(x2.ret).timestamp,
          technical_analysis |-> res.analysis_data,
          llm_analysis |-> analysis ],
        LAMBDA suggestion :
    Returns([st1 EXCEPT !.conversation_history = x2.h,
                        !.now = @ + 1,
                        !.trade_suggestions = Append(@, suggestion)],
            Some(suggestion)))))

\* env: analysis (the answer to analyze_symbol's fetch), llm1, price (the
\* answer to _get_current_price's fetch), llm2
get_claude_trade_suggestion(st, symbol, result, env) ==
    IF ~st.llm_analyst THEN Returns(st, None)
    ELSE
    Let(IF IsNone(result) THEN analyze_symbol(st, symbol, env.analysis)
        ELSE Returns(st, result),
        LAMBDA a :
    IF IsNone(a.ret) THEN Returns(a.st, None)
    ELSE
    Let(analyze_signal(a.st.conversation_history, symbol, env.llm1),
        LAMBDA x1 :
    IF x1.exc THEN Returns([a.st EXCEPT !.conversation_history = x1.h], None)
    ELSE suggestion_from_price([a.st EXCEPT !.conversation_history = x1.h],
                               symbol, The(a.ret), The(x1.ret), env)))

RECURSIVE get_trade_suggestions_from(_, _, _, _, _)
get_trade_suggestions_from(st, symbols, envs, i, acc) ==
    IF i > Len(symbols) THEN Returns(st, acc)
    ELSE Let(get_claude_trade_suggestion(st, symbols[i], None, envs[i]),
             LAMBDA r :
                IF r.exc THEN Raises(r.st)
                ELSE get_trade_suggestions_from(r.st, symbols, envs, i + 1,
                        IF IsNone(r.ret) THEN acc ELSE Append(acc, The(r.ret))))

get_trade_suggestions(st, symbols, envs) ==
    get_trade_suggestions_from(st, symbols, envs, 1, <<>>)

-----------------------------------------------------------------------------
(* The state machine *)

St == [ config |-> config, llm_analyst |-> llm_analyst, results |-> results,
        trade_suggestions |-> trade_suggestions,
        conversation_history |-> conversation_history, now |-> now ]

Call(op, args, env, ret, exc) ==
    [op |-> op, args |-> args, env |-> env, ret |-> ret, exc |-> exc]

\* the fields after a call that answered r, and the record of the call
Commit(r, op, args, env) ==
    /\ config' = r.st.config
    /\ llm_analyst' = r.st.llm_analyst
    /\ results' = r.st.results
    /\ trade_suggestions' = r.st.trade_suggestions
    /\ conversation_history' = r.st.conversation_history
    /\ now' = r.st.now
    /\ last' = Call(op, args, env, r.ret, r.exc)

\* the symbol lists the batch operations are called with
SymbolLists == {<<>>, <<"A", "A">>, <<"A", "B", "C">>}

Fresh(cfg, llm) ==
    /\ config = cfg
    /\ llm_analyst = llm
    /\ results = <<>>
    /\ trade_suggestions = <<>>
    /\ conversation_history = <<>>
    /\ now = 1
    /\ exported = None
    /\ last = Call("init", <<>>, <<>>, None, FALSE)

AnalyzeSymbol(Syms, Outs, Max) ==
    /\ Len(results) < Max
    /\ \E symbol \in Syms, o \in Outs :
          \E r \in {analyze_symbol(St, symbol, o)} :
             Commit(r, "analyze_symbol", <<symbol>>, <<o>>)
    /\ UNCHANGED exported

AnalyzeSymbols(Lists, Outs, Max) ==
    /\ \E symbols \in Lists :
          /\ Len(results) + Len(symbols) <= Max
          /\ \E env \in [1 .. Len(symbols) -> Outs] :
                \E r \in {analyze_symbols(St, symbols, env)} :
                   Commit(r, "analyze_symbols", symbols, env)
    /\ UNCHANGED exported

GetBuySignals ==
    /\ \E r \in {get_buy_signals(St)} : Commit(r, "get_buy_signals", <<>>, <<>>)
    /\ UNCHANGED exported

GetSellSignals ==
    /\ \E r \in {get_sell_signals(St)} : Commit(r, "get_sell_signals", <<>>, <<>>)
    /\ UNCHANGED exported

ExportResults ==
    /\ exported' = Some(export_results(St))
    /\ Commit(Returns(St, None), "export_results", <<>>, <<>>)

-----------------------------------------------------------------------------
(* The analysis-only session: analyze_symbol and analyze_symbols alone.    *)

AnalysisInit == Fresh(DefaultConfig, FALSE)

AnalysisNext ==
    \/ AnalyzeSymbol(Symbols, Outcomes, MaxAnalysed)
    \/ AnalyzeSymbols(SymbolLists, BatchOutcomes, MaxAnalysed)
    \/ GetBuySignals
    \/ GetSellSignals
    \/ ExportResults

AnalysisSpec == AnalysisInit /\ [][AnalysisNext]_vars

-----------------------------------------------------------------------------
(* The engine under every frame and configuration: a fresh agent analyses  *)
(* one series.                                                             *)

EngineWeights ==
    { DefaultWeights, [i \in Indicators |-> IF i = "rsi" THEN rsi_weight
                                            ELSE IF i = "ma" THEN 50 ELSE 100] }

EngineConfigs ==
    { TradingConfig(sl[1], sl[2], w, t) :
        sl \in {<<stop_loss_percent, take_profit_percent>>, <<10, 20>>},
        w \in EngineWeights,
        t \in {<<1, 4>>, DefaultThreshold} }

Partials == [Indicators -> {None} \cup {Some(p) : p \in PartialScores}]

EngineFrames ==
    { Frame(lookback_period, c, 10, p, v) :
        c \in {min_price, 100, max_price},
        p \in Partials,
        v \in {volume_threshold_percentile - 1, volume_threshold_percentile, 90} }
    \cup { Frame(lookback_period - 1, 100, 10, AllAt(ScoreScale), 90),
           Frame(lookback_period, min_price - 1, 10, AllAt(ScoreScale), 90),
           Frame(lookback_period, max_price + 1, 10, AllAt(ScoreScale), 90),
           Frame(lookback_period, 100, min_daily_change_percent - 1, AllAt(ScoreScale), 90),
           Frame(lookback_period, 100, max_daily_change_percent + 1, AllAt(ScoreScale), 90) }

EngineInit == \E cfg \in EngineConfigs : Fresh(cfg, FALSE)

EngineAnalyze ==
    /\ results = <<>>
    /\ \E df \in EngineFrames :
          \E r \in {analyze_symbol(St, "A", Outcome("data", df, FALSE))} :
             Commit(r, "analyze_symbol", <<"A">>, <<Outcome("data", df, FALSE)>>)
    /\ UNCHANGED exported

EngineNext == EngineAnalyze

EngineSpec == EngineInit /\ [][EngineNext]_vars

-----------------------------------------------------------------------------
(* The whole agent: every operation, driven with a few outcomes.           *)

SessionSymbols == {"A"}
SessionLists == {<<>>, <<"A">>, <<"A", "A">>}

SessionOutcomes ==
    { Outcome("raise", NoFrame, FALSE),
      Outcome("data", BullFrame, FALSE),
      Outcome("data", FlatFrame, FALSE) }

ReplyJson == <<"w", "{", "k", "}", "w">>
Replies == {ReplyJson}

LlmAnswers == {Llm(TRUE, <<>>)} \cup {Llm(FALSE, text) : text \in Replies}

SuggestionEnv(a, l1, p, l2) == [analysis |-> a, llm1 |-> l1, price |-> p, llm2 |-> l2]

SuggestionEnvs ==
    { SuggestionEnv(a, l1, p, l2) :
        a \in SessionOutcomes, l1 \in LlmAnswers,
        p \in {Outcome("none", NoFrame, FALSE), Outcome("data", FlatFrame, FALSE)},
        l2 \in LlmAnswers }

BatchSuggestionEnvs ==
    { SuggestionEnv(a, l1, Outcome("none", NoFrame, FALSE), l2) :
        a \in {Outcome("raise", NoFrame, FALSE), Outcome("data", BullFrame, FALSE)},
        l1 \in {Llm(TRUE, <<>>), Llm(FALSE, ReplyJson)},
        l2 \in {Llm(TRUE, <<>>), Llm(FALSE, ReplyJson)} }

GetClaudeTradeSuggestion ==
    /\ Len(results) < MaxResults
    /\ \E symbol \in SessionSymbols,
          result \in {None} \cup {Some(results[i]) : i \in 1 .. Len(results)},
          env \in SuggestionEnvs :
          \E r \in {get_claude_trade_suggestion(St, symbol, result, env)} :
          /\ Len(r.st.conversation_history) <= MaxHist
          /\ Commit(r, "get_claude_trade_suggestion", <<symbol, result>>, <<>>)
    /\ UNCHANGED exported

GetTradeSuggestions ==
    /\ \E symbols \in SessionLists :
          /\ Len(results) + Len(symbols) <= MaxResults
          /\ \E envs \in [1 .. Len(symbols) -> BatchSuggestionEnvs] :
                \E r \in {get_trade_suggestions(St, symbols, envs)} :
                /\ Len(r.st.conversation_history) <= MaxHist
                /\ Commit(r, "get_trade_suggestions", symbols, <<>>)
    /\ UNCHANGED exported

Init == \E llm \in BOOLEAN : Fresh(DefaultConfig, llm)

Next ==
    \/ AnalyzeSymbol(SessionSymbols, SessionOutcomes, MaxResults)
    \/ AnalyzeSymbols(SessionLists, SessionOutcomes, MaxResults)
    \/ GetBuySignals
    \/ GetSellSignals
    \/ ExportResults
    \/ GetClaudeTradeSuggestion
    \/ GetTradeSuggestions

Spec == Init /\ [][Next]_vars

-----------------------------------------------------------------------------
(* The LLMAnalyst called directly.  The record of a call keeps, as what    *)
(* the collaborator answered, its answer llm and the message list sent it  *)
(* received (the messages argument of client.messages.create).             *)

\* the number of messages an exchange answered llm adds to the history
Grows(llm) == IF llm.raises THEN 1 ELSE 2

\* the fields after an exchange that answered x, and the record of the call
AnalystStep(x, op, args, llm) ==
    /\ conversation_history' = x.h
    /\ last' = Call(op, args, [llm |-> llm, sent |-> x.sent], x.ret, x.exc)
    /\ UNCHANGED <<config, llm_analyst, results, trade_suggestions, now, exported>>

AnalyzeSignal(Answers, Max) ==
    /\ llm_analyst
    /\ Len(conversation_history) < Max
    /\ \E symbol \in SessionSymbols, llm \in Answers :
          /\ Len(conversation_history) + Grows(llm) <= Max
          /\ \E x \in {analyze_signal(conversation_history, symbol, llm)} :
                AnalystStep(x, "analyze_signal", <<symbol>>, llm)

GenerateTradeSuggestion(Answers, Max) ==
    /\ llm_analyst
    /\ Len(conversation_history) < Max
    /\ \E symbol \in SessionSymbols, llm \in Answers :
          /\ Len(conversation_history) + Grows(llm) <= Max
          /\ \E x \in {generate_trade_suggestion(conversation_history, symbol, llm, now)} :
                AnalystStep(x, "generate_trade_suggestion", <<symbol>>, llm)

AssessMarketConditions(Answers, Max) ==
    /\ llm_analyst
    /\ Len(conversation_history) < Max
    /\ \E llm \in Answers :
          /\ Len(conversation_history) + Grows(llm) <= Max
          /\ \E x \in {assess_market_conditions(conversation_history, llm)} :
                AnalystStep(x, "assess_market_conditions", <<>>, llm)

ResetConversation ==
    /\ llm_analyst
    /\ conversation_history' = reset_conversation(conversation_history)
    /\ last' = Call("reset_conversation", <<>>, <<>>, None, FALSE)
    /\ UNCHANGED <<config, llm_analyst, results, trade_suggestions, now, exported>>

-----------------------------------------------------------------------------
(* The parsing session: one exchange at a time, the collaborator replying  *)
(* any text of at most MaxReply tokens.                                    *)

Tokens == {"{", "}", "k", "w"}

Texts(n) == UNION {[1 .. m -> Tokens] : m \in 0 .. n}

ParseAnswers == {Llm(TRUE, <<>>)} \cup {Llm(FALSE, text) : text \in Texts(MaxReply)}

\* the parsing session holds one answered exchange at a time
MaxParsed == Grows(Llm(FALSE, <<>>))

ParseInit == Fresh(DefaultConfig, TRUE)

ParseNext ==
    \/ AnalyzeSignal(ParseAnswers, MaxParsed)
    \/ GenerateTradeSuggestion(ParseAnswers, MaxParsed)
    \/ AssessMarketConditions(ParseAnswers, MaxParsed)
    \/ ResetConversation

ParseSpec == ParseInit /\ [][ParseNext]_vars

-----------------------------------------------------------------------------
(* Properties *)

Ran(op) == last.op = op

\* the collaborators' answer o lets analyze_symbol produce a result
Succeeds(cfg, o) ==
    /\ o.fetch = "data"
    /\ o.df.len > 0
    /\ ~o.engine_raises
    /\ ~IsNone(evaluate_signal(cfg, o.df))

IsPrefix(s, t) == Len(s) <= Len(t) /\ SubSeq(t, 1, Len(s)) = s

\* the positions of the list rs whose record carries the signal kind, and the
\* number of them up to position i
Matching(rs, kind) == {i \in 1 .. Len(rs) : rs[i].signal = kind}
Rank(S, i) == Cardinality({j \in S : j <= i})

\* C1: analyze_symbols completes whatever fails, and returns exactly the
\* results of the symbols that did not fail, in the order of the input: the
\* k-th symbol that succeeds gives the k-th returned record, and the returned
\* records are the ones the call added to results.
C1_BatchReturnsSuccessesInOrder ==
    Ran("analyze_symbols") =>
        LET symbols == last.args
            ok == {i \in 1 .. Len(symbols) : Succeeds(config, last.env[i])}
        IN  /\ ~last.exc
            /\ Len(last.ret) = Cardinality(ok)
            /\ \A i \in ok :
                  /\ last.ret[Rank(ok, i)].symbol = symbols[i]
                  /\ Some(last.ret[Rank(ok, i)].analysis_data)
                        = evaluate_signal(config, last.env[i].df)
            /\ Len(last.ret) <= Len(results)
            /\ last.ret = SubSeq(results, Len(results) - Len(last.ret) + 1, Len(results))

\* [A, B, C] with B's fetch raising: two results, for A then C
C1_Witness ==
    /\ Ran("analyze_symbols")
    /\ last.args = <<"A", "B", "C">>
    /\ last.env[2].fetch = "raise"
    /\ Succeeds(config, last.env[1]) /\ Succeeds(config, last.env[3])
    /\ Len(last.ret) = 2
    /\ last.ret[1].symbol = "A" /\ last.ret[2].symbol = "C"

\* the cases in which C2 says analyze_symbol returns None
NoSignalCase(cfg, o) ==
    \/ o.fetch \in {"raise", "none"}
    \/ o.df.len = 0
    \/ o.df.len < cfg.lookback_period
    \/ o.engine_raises
    \/ IsNone(evaluate_signal(cfg, o.df))

\* C2: analyze_symbol never raises; when the fetch raises or returns nothing
\* or an empty frame, the series is shorter than the lookback, or the engine
\* raises or yields no signal, it returns None and results is unchanged;
\* otherwise it appends exactly one record for the symbol and returns it.
C2_AnalyzeSymbolNeverRaises ==
    [][ last'.op = "analyze_symbol" =>
            /\ ~last'.exc
            /\ IF NoSignalCase(config, last'.env[1])
               THEN last'.ret = None /\ results' = results
               ELSE /\ ~IsNone(last'.ret)
                    /\ results' = Append(results, The(last'.ret))
                    /\ The(last'.ret).symbol = last'.args[1] ]_vars

\* a series one bar shorter than the lookback gave None
C2_Witness ==
    /\ Ran("analyze_symbol")
    /\ last.env[1].fetch = "data"
    /\ last.env[1].df.len = config.lookback_period - 1
    /\ last.ret = None
    /\ ~last.exc

\* C3: results is append-only: every step leaves the old list as a prefix of
\* the new one, and the filters and the export leave it unchanged.
C3_ResultsAppendOnly ==
    [][ /\ IsPrefix(results, results')
        /\ last'.op \in {"get_buy_signals", "get_sell_signals", "export_results"}
              => results' = results ]_vars

\* a suggestion call that was given no result analysed the symbol itself and
\* added its record after an earlier one
C3_Witness ==
    /\ Ran("get_claude_trade_suggestion")
    /\ last.args[2] = None
    /\ ~IsNone(last.ret)
    /\ Len(results) = 2
    /\ Len(trade_suggestions) = 1

\* the frame of the last analyze_symbol call, and the record it returned
Df == last.env[1].df
Ret == The(last.ret)
Produced == Ran("analyze_symbol") /\ ~IsNone(last.ret)

\* the normalized combined score of the frame is above / below / equal to
\* the fraction t (denominators are positive)
ScoreAbove(cfg, df, t) ==
    CombinedScore(cfg, df)[1] * t[2] > t[1] * CombinedScore(cfg, df)[2]
ScoreBelow(cfg, df, t) ==
    CombinedScore(cfg, df)[1] * t[2] < t[1] * CombinedScore(cfg, df)[2]
Negated(t) == <<-t[1], t[2]>>

\* C4: a score strictly above T gives BUY, strictly below -T gives SELL, and
\* every other score, T and -T included, gives HOLD.
C4_SignalByThreshold ==
    Produced =>
        LET T == config.signal_threshold IN
        /\ T[1] > 0 /\ T[2] > 0
        /\ ScoreAbove(config, Df, T) => Ret.signal = "BUY"
        /\ ScoreBelow(config, Df, Negated(T)) => Ret.signal = "SELL"
        /\ (~ScoreAbove(config, Df, T) /\ ~ScoreBelow(config, Df, Negated(T)))
              => Ret.signal = "HOLD"

\* a score exactly at T gave HOLD
C4_Witness ==
    /\ Produced
    /\ ~ScoreAbove(config, Df, config.signal_threshold)
    /\ ~ScoreBelow(config, Df, config.signal_threshold)
    /\ Ret.signal = "HOLD"

\* C5: BUY: entry is the latest close, stop = entry * (1 - sl/100), target =
\* entry * (1 + tp/100); SELL: stop = entry * (1 + sl/100), target = entry *
\* (1 - tp/100); HOLD: no entry, stop or target.  With the defaults, entry
\* 100 gives 98 and 105 for BUY, 102 and 95 for SELL.
C5_EntryStopTarget ==
    Produced =>
        LET sl == config.stop_loss_percent
            tp == config.take_profit_percent
            r == Ret
        IN
        /\ r.signal \in {"BUY", "SELL"} =>
              /\ r.entry_price = Some(100 * Df.close)
              /\ ~IsNone(r.stop_loss) /\ ~IsNone(r.take_profit)
        /\ r.signal = "BUY" =>
              /\ 100 * The(r.stop_loss) = The(r.entry_price) * (100 - sl)
              /\ 100 * The(r.take_profit) = The(r.entry_price) * (100 + tp)
        /\ r.signal = "SELL" =>
              /\ 100 * The(r.stop_loss) = The(r.entry_price) * (100 + sl)
              /\ 100 * The(r.take_profit) = The(r.entry_price) * (100 - tp)
        /\ r.signal = "HOLD" =>
              r.entry_price = None /\ r.stop_loss = None /\ r.take_profit = None
        /\ (sl = 2 /\ tp = 5 /\ Df.close = 100) =>
              /\ r.signal = "BUY" => r.stop_loss = Some(9800) /\ r.take_profit = Some(10500)
              /\ r.signal = "SELL" => r.stop_loss = Some(10200) /\ r.take_profit = Some(9500)

\* SELL at 100 with stop 2 % and target 5 %: 102 and 95
C5_Witness ==
    /\ Produced
    /\ config.stop_loss_percent = 2 /\ config.take_profit_percent = 5
    /\ Df.close = 100
    /\ Ret.signal = "SELL"
    /\ Ret.entry_price = Some(10000)
    /\ Ret.stop_loss = Some(10200)
    /\ Ret.take_profit = Some(9500)

\* the indicators of the frame that did not fail
Available(df) == {i \in Indicators : df.partial[i] # None}

\* C6: an indicator that fails with InsufficientData is left out of the
\* weighted sum and its weight out of the normalizing sum, and a signal is
\* still produced; no signal for this reason only when every indicator
\* failed.  (score * sum of applied weights = sum of applied weighted partial
\* scores, a partial score p standing for p / ScoreScale.)
C6_FailedIndicatorsSkipped ==
    (Ran("analyze_symbol") /\ Preconditions(config, Df)) =>
        LET A == Available(Df)
            w == config.weights
        IN
        /\ IsNone(last.ret) <=> A = {}
        /\ ~IsNone(last.ret) =>
              LET score == Ret.analysis_data.score IN
              score[1] * ScoreScale * SumOver(A, w)
                 = score[2] * SumOver(A, [i \in Indicators |->
                                  IF i \in A THEN w[i] * The(Df.partial[i]) ELSE 0])

\* RSI failed, the other two are fully bullish: the score is 1, it would be
\* less had the weight of RSI stayed in the normalizing sum
C6_Witness ==
    /\ Produced
    /\ Df.partial["rsi"] = None
    /\ Df.partial["ma"] = Some(ScoreScale)
    /\ Df.partial["macd"] = Some(ScoreScale)
    /\ Ret.analysis_data.score = <<1, 1>>
    /\ Ret.signal = "BUY"

\* C8: the confidence is |score| clamped to [0, 1], halved when the volume
\* percentile is below the threshold, in which case the signal is still
\* reported; so it lies in [0, 1].
C8_Confidence ==
    (Ran("analyze_symbol") /\ Preconditions(config, Df) /\ Available(Df) # {}) =>
        /\ ~IsNone(last.ret)
        /\ LET c == Ret.confidence
               s == CombinedScore(config, Df)
               clamped == IF Abs(s[1]) > s[2] THEN s[2] ELSE Abs(s[1])
               low == Df.volume_percentile < config.volume_threshold_percentile
           IN  /\ c[2] > 0 /\ 0 <= c[1] /\ c[1] <= c[2]
               /\ low => 2 * c[1] * s[2] = c[2] * clamped
               /\ ~low => c[1] * s[2] = c[2] * clamped
               /\ Ret.signal = (IF ScoreAbove(config, Df, config.signal_threshold) THEN "BUY"
                                ELSE IF ScoreBelow(config, Df, Negated(config.signal_threshold))
                                THEN "SELL" ELSE "HOLD")

\* a fully bullish frame on low volume: BUY with confidence 1/2
C8_Witness ==
    /\ Produced
    /\ Df.volume_percentile < config.volume_threshold_percentile
    /\ Df.partial = AllAt(ScoreScale)
    /\ Ret.signal = "BUY"
    /\ Ret.confidence = <<1, 2>>

\* json.load: the Python value of a JSON value
JsonValue(j) ==
    IF j.t = "null" THEN None ELSE IF j.t = "number" THEN The(j.v) ELSE j.v

\* the JSON value j reads back as the optional price o
ReadsBackAs(j, o) ==
    IF IsNone(o) THEN j.t = "null" /\ JsonValue(j) = None
    ELSE j.t = "number" /\ JsonValue(j) = The(o)

\* C9: the exported JSON read back holds one object per result, in the order
\* of results, each reproducing symbol, signal, confidence, entry_price,
\* stop_loss and take_profit (an absent price as null).
C9_ExportRoundTrip ==
    Ran("export_results") =>
        /\ ~IsNone(exported)
        /\ LET doc == The(exported) IN
           /\ Len(doc) = Len(results)
           /\ \A i \in 1 .. Len(results) :
                 /\ doc[i].symbol.t = "string" /\ JsonValue(doc[i].symbol) = results[i].symbol
                 /\ doc[i].signal.t = "string" /\ JsonValue(doc[i].signal) = results[i].signal
                 /\ doc[i].confidence.t = "number"
                 /\ JsonValue(doc[i].confidence) = results[i].confidence
                 /\ ReadsBackAs(doc[i].entry_price, results[i].entry_price)
                 /\ ReadsBackAs(doc[i].stop_loss, results[i].stop_loss)
                 /\ ReadsBackAs(doc[i].take_profit, results[i].take_profit)

\* an export of a SELL (stop above target) followed by a HOLD (null prices)
C9_Witness ==
    /\ Ran("export_results")
    /\ Len(results) = 2
    /\ results[1].signal = "SELL" /\ results[1].stop_loss # results[1].take_profit
    /\ results[2].signal = "HOLD" /\ results[2].entry_price = None
    /\ Len(The(exported)) = 2

\* the list ret is the records of rs with signal kind, each once per
\* occurrence, in the order of rs
IsFilterOf(ret, rs, kind) ==
    LET M == Matching(rs, kind) IN
    /\ Len(ret) = Cardinality(M)
    /\ \A i \in M : ret[Rank(M, i)] = rs[i]
    /\ \A k \in 1 .. Len(ret) : ret[k].signal = kind

\* C10: get_buy_signals (get_sell_signals) returns exactly the results whose
\* signal is BUY (SELL), each as often as it occurs, in insertion order.
C10_FilterBySignal ==
    /\ Ran("get_buy_signals") => IsFilterOf(last.ret, results, "BUY")
    /\ Ran("get_sell_signals") => IsFilterOf(last.ret, results, "SELL")

\* SELL, BUY, SELL in results: get_sell_signals gave the first and the third
C10_Witness ==
    /\ Ran("get_sell_signals")
    /\ Len(results) = 3
    /\ results[1].signal = "SELL" /\ results[2].signal = "BUY" /\ results[3].signal = "SELL"
    /\ last.ret = <<results[1], results[3]>>

-----------------------------------------------------------------------------
(* The conversation session: the analyst's four operations in any order,   *)
(* and the agent's get_claude_trade_suggestion for a result already held,  *)
(* the collaborator raising, replying JSON in prose, or replying prose.    *)

ReplyProse == <<"w">>

ConversationAnswers == {Llm(TRUE, <<>>), Llm(FALSE, ReplyJson), Llm(FALSE, ReplyProse)}

\* the result the suggestion is asked for
HeldResult == AnalysisResult("A", 0, The(evaluate_signal(DefaultConfig, BullFrame)))

SuggestTrade(Answers, Max) ==
    /\ llm_analyst
    /\ Len(trade_suggestions) < MaxResults
    /\ \E symbol \in SessionSymbols, l1 \in Answers, l2 \in Answers :
          /\ Len(conversation_history) + Grows(l1) <= Max
          /\ \E r \in {get_claude_trade_suggestion(St, symbol, Some(HeldResult),
                          SuggestionEnv(Outcome("none", NoFrame, FALSE), l1,
                                        Outcome("none", NoFrame, FALSE), l2))} :
                /\ Len(r.st.conversation_history) <= Max
                /\ Commit(r, "get_claude_trade_suggestion", <<symbol>>, <<l1, l2>>)
    /\ UNCHANGED exported

ConversationInit == Fresh(DefaultConfig, TRUE)

ConversationNext ==
    \/ AnalyzeSignal(ConversationAnswers, MaxHist)
    \/ GenerateTradeSuggestion(ConversationAnswers, MaxHist)
    \/ AssessMarketConditions(ConversationAnswers, MaxHist)
    \/ ResetConversation
    \/ SuggestTrade(ConversationAnswers, MaxHist)

ConversationSpec == ConversationInit /\ [][ConversationNext]_vars

-----------------------------------------------------------------------------
(* The formatter's parsing *)

\* the call was an exchange that the collaborator answered with a reply
Replied(ops) == last.op \in ops /\ ~last.env.llm.raises

Reply == last.env.llm.text

\* the record the call returned, without the timestamp that
\* generate_trade_suggestion adds to it
Payload == IF Ran("generate_trade_suggestion") THEN The(last.ret).body ELSE The(last.ret)

Positions(text, c) == {i \in 1 .. Len(text) : text[i] = c}
Least(S) == CHOOSE i \in S : \A j \in S : i <= j
Greatest(S) == CHOOSE i \in S : \A j \in S : j <= i

\* the reply has a first "{" with a last "}" after it, and the span they bound
HasSpan(text) ==
    /\ Positions(text, "{") # {}
    /\ Positions(text, "}") # {}
    /\ Least(Positions(text, "{")) < Greatest(Positions(text, "}"))

Span(text) == SubSeq(text, Least(Positions(text, "{")), Greatest(Positions(text, "}")))

IsParsed(rec, span) == DOMAIN rec = {"parsed"} /\ rec.parsed = span

IsDegraded(rec, text) ==
    /\ "error" \in DOMAIN rec
    /\ "parsed" \notin DOMAIN rec
    /\ rec.raw = text

\* C11: analyze_signal and generate_trade_suggestion parse the span from the
\* first "{" to the last "}" of the reply, without the prose around it; when
\* the reply has no such span or the span is not valid JSON they return a
\* degraded record that carries the complete reply and an error marker, and
\* they do not raise.
C11_SpanParsedOrDegraded ==
    Replied({"analyze_signal", "generate_trade_suggestion"}) =>
        /\ ~last.exc
        /\ ~IsNone(last.ret)
        /\ IF HasSpan(Reply) /\ JsonLoads(Span(Reply))
           THEN IsParsed(Payload, Span(Reply))
           ELSE IsDegraded(Payload, Reply)

\* generate_trade_suggestion was answered prose around a span that is not
\* valid JSON, and returned the degraded record
C11_Witness ==
    /\ Replied({"generate_trade_suggestion"})
    /\ Reply = <<"w", "{", "w", "}", "w">>
    /\ ~last.exc
    /\ IsDegraded(Payload, Reply)

\* the opening braces less the closing braces among the tokens a .. b of text
Balance(text, a, b) ==
    Cardinality({i \in a .. b : text[i] = "{"}) - Cardinality({i \in a .. b : text[i] = "}"})

\* the tokens a .. b of text are a balanced {...} span
IsBalanced(text, a, b) ==
    /\ a < b
    /\ text[a] = "{"
    /\ Balance(text, a, b) = 0
    /\ \A j \in a .. (b - 1) : Balance(text, a, j) > 0

\* the end of the balanced span that the first "{" of text opens, 0 when it
\* is never closed
FirstSpanEnd(text) ==
    IF \E b \in 1 .. Len(text) : IsBalanced(text, Find(text, "{"), b)
    THEN CHOOSE b \in 1 .. Len(text) : IsBalanced(text, Find(text, "{"), b)
    ELSE 0

\* text holds two separate balanced spans: a second one after the first
TwoSpans(text) ==
    /\ Find(text, "{") # 0
    /\ FirstSpanEnd(text) # 0
    /\ \E a, b \in (FirstSpanEnd(text) + 1) .. Len(text) : IsBalanced(text, a, b)

FirstSpan(text) == SubSeq(text, Find(text, "{"), FirstSpanEnd(text))

\* C12: only the first balanced {...} span of the reply is treated as
\* structured data: a reply that holds two separate balanced spans is parsed
\* to the object of the first span.
C12_FirstBalancedSpanParsed ==
    ( /\ Replied({"analyze_signal", "generate_trade_suggestion"})
      /\ TwoSpans(Reply)
      /\ JsonLoads(FirstSpan(Reply)) ) =>
        /\ ~last.exc
        /\ IsParsed(Payload, FirstSpan(Reply))

-----------------------------------------------------------------------------
(* The running conversation *)

ExchangeOps == {"analyze_signal", "generate_trade_suggestion", "assess_market_conditions"}

\* the prompt of a call, and the messages of a prompt and of an answer
PromptOf(op, args) == Message("user", <<op>> \o args)
Answered(llm) == IF llm.raises THEN <<>> ELSE <<Message("assistant", llm.text)>>

\* what get_claude_trade_suggestion exchanges for symbol when the
\* collaborator answers l1 and then l2
Exchanged(symbol, l1, l2) ==
    <<PromptOf("analyze_signal", <<symbol>>)>> \o Answered(l1)
    \o (IF l1.raises THEN <<>>
        ELSE <<PromptOf("generate_trade_suggestion", <<symbol>>)>> \o Answered(l2))

\* C13: the prompts are sent as a running conversation: the message list a
\* call passes to the collaborator is every earlier prompt and reply in the
\* order they occurred, followed by the new prompt as its last message, and
\* the history then holds that list and the reply; so the request of a
\* generate_trade_suggestion that follows an analyze_signal holds the prompt
\* of that analyze_signal and its reply right before the new prompt, and
\* get_claude_trade_suggestion adds its two exchanges to the history in order.
C13_RunningConversation ==
    [][ /\ last'.op \in ExchangeOps =>
            /\ last'.env.sent
                 = Append(conversation_history, PromptOf(last'.op, last'.args))
            /\ conversation_history' = last'.env.sent \o Answered(last'.env.llm)
        /\ ( /\ last.op = "analyze_signal"
             /\ ~last.exc
             /\ last'.op = "generate_trade_suggestion" ) =>
            LET sent == last'.env.sent
                n == Len(sent)
            IN  /\ n >= 3
                /\ sent[n - 2] = PromptOf("analyze_signal", last.args)
                /\ sent[n - 1] = Message("assistant", last.env.llm.text)
                /\ sent[n] = PromptOf("generate_trade_suggestion", last'.args)
        /\ last'.op = "get_claude_trade_suggestion" =>
            conversation_history'
              = conversation_history
                \o Exchanged(last'.args[1], last'.env[1], last'.env[2])
      ]_vars

\* generate_trade_suggestion was called after an answered analyze_signal and
\* sent the collaborator the three messages
C13_Witness ==
    /\ Ran("generate_trade_suggestion")
    /\ ~last.exc
    /\ last.env.sent = << PromptOf("analyze_signal", <<"A">>),
                          Message("assistant", ReplyJson),
                          PromptOf("generate_trade_suggestion", <<"A">>) >>
    /\ Len(conversation_history) = 4

\* C14: after any sequence of calls, the collaborator raising or not,
\* conversation_history has even length and its roles alternate user,
\* assistant: every user prompt is directly followed by the reply to it.
C14_HistoryAlternates ==
    /\ Len(conversation_history) % 2 = 0
    /\ \A i \in 1 .. Len(conversation_history) :
          conversation_history[i].role = (IF i % 2 = 1 THEN "user" ELSE "assistant")

====
